---- MODULE Spec2Model ----
(***************************************************************************)
(* Model of the PicoRV assembler lexer (src/src/Lexer.cpp).                *)
(*                                                                         *)
(* Characters are their ASCII codes, a line is a sequence of characters,   *)
(* a source is a sequence of lines (what std::getline yields, terminator   *)
(* removed).  Sequences are 1-based here and 0-based in the C++ code: the  *)
(* C++ index i is the TLA+ index i + 1.                                    *)
(*                                                                         *)
(* Two specifications:                                                     *)
(*   Spec     the Lexer object: construction over a source, then any       *)
(*            interleaving of hasMoreTokens / peekNextToken / getNextToken *)
(*   SpecTok  Lexer::tokenize applied to one candidate lexeme              *)
(***************************************************************************)
EXTENDS Integers, Sequences, FiniteSets

VARIABLES
    source,         \* the std::ifstream handed to the constructor
    instructions,   \* const std::unordered_set<std::string>& instructions
    parsedFile,     \* std::deque<Token>& parsedFile
    currentLine,    \* int currentLine
    currentColumn,  \* int currentColumn
    pc,             \* "start": not constructed, "ready": constructed,
                    \* "threw": the constructor threw, "tok": SpecTok only
    ret,            \* the outcome of the last call made on the object
    scanned,        \* history: the stream as construction left it
    popped,         \* history: number of getNextToken calls that returned
    tkStr,          \* SpecTok: the lexeme handed to tokenize
    tkTok           \* SpecTok: the Token tokenize returned

vars == <<source, instructions, parsedFile, currentLine, currentColumn,
          pc, ret, scanned, popped, tkStr, tkTok>>

-----------------------------------------------------------------------------
(* Bounds *)

MaxLines == 2
MaxSourceChars == 5
MaxLexLen == 3

-----------------------------------------------------------------------------
(* Characters and character classes *)

\* 'x' , '1' , ':'  -- the characters of the sources of Spec
SourceAlphabet == {120, 49, 58}

\* 'x' '0' '1' '2' '3' 'b' 'B' 'G' '_'  -- the characters of the lexemes of SpecTok
LexAlphabet == {120, 48, 49, 50, 51, 98, 66, 71, 95}

isdigit(c) == c \in 48..57

isxdigit(c) == c \in 48..57 \/ c \in 97..102 \/ c \in 65..70

\* the character class of the regex "[a-zA-Z0-9_]+"
IsWordCharColon(c) == c \in 97..122 \/ c \in 65..90 \/ c \in 48..57 \/ c = 95 \/ c = 58

IsWordChar(c) == c \in 97..122 \/ c \in 65..90 \/ c \in 48..57 \/ c = 95

-----------------------------------------------------------------------------
(* Token *)

Token(type, lexeme, line, column) ==
    [type |-> type, lexeme |-> lexeme, line |-> line, column |-> column]

\* the lexeme "\n" of an END_OF_LINE token
EolLexeme == <<10>>

NoToken == [type |-> "NONE"]

-----------------------------------------------------------------------------
(* Lexer::tokenize *)

\* the register loop: digits accumulate into reg_num, stop as soon as it exceeds 31
RECURSIVE RegLoopNoBound(_, _, _)
RegLoopNoBound(str, i, reg_num) ==
    IF i > Len(str) THEN TRUE
    ELSE IF ~isdigit(str[i]) THEN FALSE
    ELSE RegLoopNoBound(str, i + 1, reg_num * 10 + (str[i] - 48))

RECURSIVE RegLoop(_, _, _)
RegLoop(str, i, reg_num) ==
    IF i > Len(str) THEN TRUE
    ELSE IF ~isdigit(str[i]) THEN FALSE
    ELSE LET r == reg_num * 10 + (str[i] - 48)
         IN  IF r > 31 THEN FALSE ELSE RegLoop(str, i + 1, r)

\* the binary loop over str[2..length-1]
RECURSIVE BinLoop(_, _)
BinLoop(str, i) ==
    IF i > Len(str) THEN TRUE
    ELSE IF str[i] # 48 /\ str[i] # 49 THEN FALSE
    ELSE BinLoop(str, i + 1)

\* the hexadecimal loop over str[2..length-1]
RECURSIVE HexLoop(_, _)
HexLoop(str, i) ==
    IF i > Len(str) THEN TRUE
    ELSE IF ~isxdigit(str[i]) THEN FALSE
    ELSE HexLoop(str, i + 1)

\* the decimal loop over str[0..length-1]
RECURSIVE DecLoop(_, _)
DecLoop(str, i) ==
    IF i > Len(str) THEN TRUE
    ELSE IF ~isdigit(str[i]) THEN FALSE
    ELSE DecLoop(str, i + 1)

\* a faulty immediate branch: a failed 0b / 0x literal is tried again as decimal or hex
ImmediateBranchFallback(str) ==
    IF Len(str) > 2 /\ str[1] = 48 /\ str[2] = 98 /\ BinLoop(str, 3) THEN "IMMEDIATE"
    ELSE IF Len(str) > 2 /\ str[1] = 48 /\ (str[2] = 120 \/ str[2] = 98) /\ HexLoop(str, 3)
         THEN "IMMEDIATE"
    ELSE IF DecLoop(str, 1) THEN "IMMEDIATE" ELSE "ERROR"

\* the branch "else if (length > 0)": binary, else hexadecimal, else decimal
ImmediateBranch(str) ==
    IF Len(str) > 2 /\ str[1] = 48 /\ str[2] = 98
    THEN IF BinLoop(str, 3) THEN "IMMEDIATE" ELSE "ERROR"
    ELSE IF Len(str) > 2 /\ str[1] = 48 /\ str[2] = 120
    THEN IF HexLoop(str, 3) THEN "IMMEDIATE" ELSE "ERROR"
    ELSE IF DecLoop(str, 1) THEN "IMMEDIATE" ELSE "ERROR"

\* the label loop: an underscore in str[0..length-2]
LabelHasUnderscore(str) == \E i \in 1..(Len(str) - 1) : str[i] = 95

\* a faulty chain: the register pattern is tried before the instruction set
ClassifyRegisterFirst(str) ==
    IF Len(str) >= 2 /\ str[1] = 120 /\ RegLoop(str, 2, 0) THEN "REGISTER"
    ELSE IF str \in instructions THEN "INSTRUCTION"
    ELSE IF Len(str) >= 2 /\ str[1] = 120 THEN "ERROR"
    ELSE IF Len(str) > 0 THEN ImmediateBranch(str)
    ELSE "ERROR"

\* the if / else-if chain of tokenize, before the label check
Classify(str) ==
    IF str \in instructions THEN "INSTRUCTION"
    ELSE IF Len(str) >= 2 /\ str[1] = 120
    THEN IF RegLoop(str, 2, 0) THEN "REGISTER" ELSE "ERROR"
    ELSE IF Len(str) > 0 THEN ImmediateBranch(str)
    ELSE "ERROR"

tokenize(str, line, column) ==
    LET type == Classify(str)
        final == IF type = "ERROR" /\ Len(str) > 0 /\ str[Len(str)] = 58
                    /\ ~LabelHasUnderscore(str)
                 THEN "LABEL" ELSE type
    IN  Token(final, str, line, column)

-----------------------------------------------------------------------------
(* Lexer::Lexer *)

\* first index >= p of a character the regex matches, 0 when there is none
RECURSIVE FindStart(_, _)
FindStart(line, p) ==
    IF p > Len(line) THEN 0
    ELSE IF IsWordChar(line[p]) THEN p
    ELSE FindStart(line, p + 1)

\* a faulty quantifier: a match is one character long
RunEndLazy(line, s) == s

\* the greedy '+': the last index of the run that starts at s
RECURSIVE RunEnd(_, _)
RunEnd(line, s) ==
    IF s < Len(line) /\ IsWordChar(line[s + 1]) THEN RunEnd(line, s + 1) ELSE s

\* the matches std::sregex_iterator walks through, from index p on:
\* position is match.position(0) (0-based), length is match.length(0)
RECURSIVE Matches(_, _)
Matches(line, p) ==
    LET s == FindStart(line, p)
    IN  IF s = 0 THEN <<>>
        ELSE LET e == RunEnd(line, s)
             IN  <<[position |-> s - 1, length |-> e - s + 1]>> \o Matches(line, e + 1)

\* a faulty loop body: column is the 0-based tokenPosition
MatchStepZeroBased(line, m, st) ==
    LET col == m.position
        tok == tokenize(SubSeq(line, m.position + 1, m.position + m.length),
                        st.currentLine, col)
    IN  [st EXCEPT !.currentColumn = col, !.parsedFile = Append(@, tok)]

\* one iteration of "for (; it != end; ++it)"
MatchStep(line, m, st) ==
    LET col == m.position + 1
        tok == tokenize(SubSeq(line, m.position + 1, m.position + m.length),
                        st.currentLine, col)
    IN  [st EXCEPT !.currentColumn = col, !.parsedFile = Append(@, tok)]

RECURSIVE MatchLoop(_, _, _, _)
MatchLoop(line, ms, k, st) ==
    IF k > Len(ms) THEN st
    ELSE MatchLoop(line, ms, k + 1, MatchStep(line, ms[k], st))

\* a faulty end of line: currentColumn is not reset
LineStepNoReset(line, st) ==
    LET after == MatchLoop(line, Matches(line, 1), 1, st)
        eol == Token("END_OF_LINE", EolLexeme, after.currentLine, after.currentColumn)
    IN  [after EXCEPT !.parsedFile = Append(@, eol),
                      !.currentLine = @ + 1]

\* one iteration of "while (std::getline(source, line))"
LineStep(line, st) ==
    LET after == MatchLoop(line, Matches(line, 1), 1, st)
        eol == Token("END_OF_LINE", EolLexeme, after.currentLine, after.currentColumn)
    IN  [after EXCEPT !.parsedFile = Append(@, eol),
                      !.currentLine = @ + 1,
                      !.currentColumn = 1]

\* the lines std::getline delivers: none unless the stream is open and good
Readable(src) == IF src.is_open /\ src.good THEN src.lines ELSE <<>>

RECURSIVE LineLoop(_, _, _)
LineLoop(lines, n, st) ==
    IF n > Len(lines) THEN st
    ELSE LineLoop(lines, n + 1, LineStep(lines[n], st))

\* a faulty guard: the constructor never throws
CtorThrowsNever(src) == FALSE

\* "if (!source.is_open()) throw std::runtime_error(...)"
CtorThrows(src) == ~src.is_open

Construct ==
    /\ pc = "start"
    /\ IF CtorThrows(source)
       THEN /\ pc' = "threw"
            /\ ret' = [op |-> "Lexer", kind |-> "runtime_error", value |-> NoToken]
            /\ UNCHANGED <<parsedFile, currentLine, currentColumn, scanned>>
       ELSE LET st0 == [parsedFile |-> parsedFile, currentLine |-> 1, currentColumn |-> 1]
                st  == LineLoop(Readable(source), 1, st0)
            IN  /\ parsedFile' = st.parsedFile
                /\ currentLine' = st.currentLine
                /\ currentColumn' = st.currentColumn
                /\ scanned' = st.parsedFile
                /\ pc' = "ready"
                /\ ret' = [op |-> "Lexer", kind |-> "ok", value |-> NoToken]
    /\ UNCHANGED <<source, instructions, popped, tkStr, tkTok>>

-----------------------------------------------------------------------------
(* Token consumption *)

hasMoreTokens ==
    /\ pc = "ready"
    /\ ret' = [op |-> "hasMoreTokens", kind |-> "ok", value |-> (parsedFile # <<>>)]
    /\ UNCHANGED <<source, instructions, parsedFile, currentLine, currentColumn,
                   pc, scanned, popped, tkStr, tkTok>>

\* a faulty peek: an empty stream yields a token instead of an exception
peekNextTokenNoThrow ==
    /\ pc = "ready"
    /\ ret' = [op |-> "peekNextToken", kind |-> "ok",
               value |-> IF parsedFile = <<>> THEN Token("ERROR", <<>>, 0, 0)
                         ELSE Head(parsedFile)]
    /\ UNCHANGED <<source, instructions, parsedFile, currentLine, currentColumn,
                   pc, scanned, popped, tkStr, tkTok>>

peekNextToken ==
    /\ pc = "ready"
    /\ IF parsedFile = <<>>
       THEN ret' = [op |-> "peekNextToken", kind |-> "out_of_range", value |-> NoToken]
       ELSE ret' = [op |-> "peekNextToken", kind |-> "ok", value |-> Head(parsedFile)]
    /\ UNCHANGED <<source, instructions, parsedFile, currentLine, currentColumn,
                   pc, scanned, popped, tkStr, tkTok>>

\* a faulty pop: the token is taken from the tail
getNextTokenFromBack ==
    /\ pc = "ready"
    /\ IF parsedFile = <<>>
       THEN /\ ret' = [op |-> "getNextToken", kind |-> "out_of_range", value |-> NoToken]
            /\ UNCHANGED <<parsedFile, popped>>
       ELSE /\ ret' = [op |-> "getNextToken", kind |-> "ok",
                       value |-> parsedFile[Len(parsedFile)]]
            /\ parsedFile' = SubSeq(parsedFile, 1, Len(parsedFile) - 1)
            /\ popped' = popped + 1
    /\ UNCHANGED <<source, instructions, currentLine, currentColumn,
                   pc, scanned, tkStr, tkTok>>

getNextToken ==
    /\ pc = "ready"
    /\ IF parsedFile = <<>>
       THEN /\ ret' = [op |-> "getNextToken", kind |-> "out_of_range", value |-> NoToken]
            /\ UNCHANGED <<parsedFile, popped>>
       ELSE /\ ret' = [op |-> "getNextToken", kind |-> "ok", value |-> Head(parsedFile)]
            /\ parsedFile' = Tail(parsedFile)
            /\ popped' = popped + 1
    /\ UNCHANGED <<source, instructions, currentLine, currentColumn,
                   pc, scanned, tkStr, tkTok>>

-----------------------------------------------------------------------------
(* Spec: one Lexer over one source *)

\* all sequences over S of length exactly n
RECURSIVE SeqsOfLen(_, _)
SeqsOfLen(S, n) ==
    IF n = 0 THEN {<<>>}
    ELSE {Append(s, c) : s \in SeqsOfLen(S, n - 1), c \in S}

SeqsUpTo(S, n) == UNION {SeqsOfLen(S, k) : k \in 0..n}

\* all sources of exactly k lines holding at most budget characters in all
RECURSIVE SourcesOf(_, _)
SourcesOf(k, budget) ==
    IF k = 0 THEN {<<>>}
    ELSE UNION {{<<l>> \o rest : rest \in SourcesOf(k - 1, budget - Len(l))} :
                    l \in SeqsUpTo(SourceAlphabet, budget)}

SourceTexts == UNION {SourcesOf(k, MaxSourceChars) : k \in 0..MaxLines}

\* instruction sets tried in Spec: none, and "x" as a mnemonic
ScanInstructionSets == {{}, {<<120>>}}

Init ==
    /\ source \in [is_open : BOOLEAN, good : BOOLEAN, lines : SourceTexts]
    /\ instructions \in ScanInstructionSets
    /\ parsedFile = <<>>
    /\ currentLine = 1
    /\ currentColumn = 1
    /\ pc = "start"
    /\ ret = [op |-> "none", kind |-> "ok", value |-> NoToken]
    /\ scanned = <<>>
    /\ popped = 0
    /\ tkStr = <<>>
    /\ tkTok = NoToken

Next == Construct \/ hasMoreTokens \/ peekNextToken \/ getNextToken

Spec == Init /\ [][Next]_vars

-----------------------------------------------------------------------------
(* SpecTok: tokenize on one candidate lexeme *)

\* a candidate lexeme is a regex match: a non-empty run of word characters
Lexemes == SeqsUpTo(LexAlphabet, MaxLexLen) \ {<<>>}

\* mnemonics tried in SpecTok: "x1", "1", "b"
MnemonicPool == {<<120, 49>>, <<49>>, <<98>>}

InitTok ==
    /\ tkStr \in Lexemes
    /\ instructions \in SUBSET MnemonicPool
    /\ tkTok = NoToken
    /\ pc = "tok"
    /\ source = [is_open |-> FALSE, good |-> FALSE, lines |-> <<>>]
    /\ parsedFile = <<>>
    /\ currentLine = 1
    /\ currentColumn = 1
    /\ ret = [op |-> "none", kind |-> "ok", value |-> NoToken]
    /\ scanned = <<>>
    /\ popped = 0

TokenizeCall ==
    /\ pc = "tok"
    /\ tkTok = NoToken
    /\ \E line \in 1..2, column \in 1..2 : tkTok' = tokenize(tkStr, line, column)
    /\ UNCHANGED <<source, instructions, parsedFile, currentLine, currentColumn,
                   pc, ret, scanned, popped, tkStr>>

NextTok == TokenizeCall

SpecTok == InitTok /\ [][NextTok]_vars

-----------------------------------------------------------------------------
(* What the scan of a source has to yield, stated from the text alone *)

\* the characters A-Z, a-z, 0-9 and _
WordCharacters == (65..90) \cup (97..122) \cup (48..57) \cup {95}

\* <<i, j>> is a maximal run of word characters of line
IsMaximalRun(line, i, j) ==
    /\ 1 <= i /\ i <= j /\ j <= Len(line)
    /\ \A q \in i..j : line[q] \in WordCharacters
    /\ (i = 1 \/ line[i - 1] \notin WordCharacters)
    /\ (j = Len(line) \/ line[j + 1] \notin WordCharacters)

RunsOf(line) ==
    {r \in (1..Len(line)) \X (1..Len(line)) : IsMaximalRun(line, r[1], r[2])}

\* the k-th run from the left
KthRun(line, k) ==
    CHOOSE r \in RunsOf(line) : Cardinality({q \in RunsOf(line) : q[1] < r[1]}) = k - 1

\* a line's part of the stream: its runs' texts left to right, then the end-of-line mark
ExpectedOfLine(line) ==
    [k \in 1..(Cardinality(RunsOf(line)) + 1) |->
        IF k <= Cardinality(RunsOf(line))
        THEN [eol |-> FALSE, text |-> SubSeq(line, KthRun(line, k)[1], KthRun(line, k)[2])]
        ELSE [eol |-> TRUE, text |-> <<>>]]

RECURSIVE ExpectedOfLines(_, _)
ExpectedOfLines(lines, n) ==
    IF n > Len(lines) THEN <<>>
    ELSE ExpectedOfLine(lines[n]) \o ExpectedOfLines(lines, n + 1)

\* a stream reduced to what C1 is about: which tokens are END_OF_LINE, and the lexemes
ShapeOf(stream) ==
    [p \in 1..Len(stream) |->
        IF stream[p].type = "END_OF_LINE"
        THEN [eol |-> TRUE, text |-> <<>>]
        ELSE [eol |-> FALSE, text |-> stream[p].lexeme]]

\* the state construction leaves behind, before any token is consumed
JustConstructed == pc = "ready" /\ ret.op = "Lexer"

\* the 1-based source line the p-th token of a stream belongs to
LineOfIndex(stream, p) ==
    1 + Cardinality({q \in 1..(p - 1) : stream[q].type = "END_OF_LINE"})

\* the rank of the p-th token among the content tokens of its own line
RankInLine(stream, p) ==
    Cardinality({q \in 1..p : /\ stream[q].type # "END_OF_LINE"
                              /\ LineOfIndex(stream, q) = LineOfIndex(stream, p)})

\* C1: after construction over a readable source the stream is, line by line, one
\* content token per maximal run of word characters (lexeme = the run's text, left to
\* right) followed by one END_OF_LINE token; separators yield nothing, a line without
\* a run yields only its END_OF_LINE, and a source of zero lines yields an empty stream.
C1_StreamIsRunsThenEol ==
    (JustConstructed /\ source.good) =>
        ShapeOf(parsedFile) = ExpectedOfLines(source.lines, 1)

\* two lines, the first with two runs around a separator, the second without a run
C1_Witness ==
    /\ JustConstructed /\ source.good
    /\ Len(source.lines) = 2
    /\ Cardinality(RunsOf(source.lines[1])) = 2
    /\ RunsOf(source.lines[2]) = {} /\ Len(source.lines[2]) > 0
    /\ Len(parsedFile) = 4

\* C2: every content token carries the 1-based number of the source line that holds
\* its run and the 1-based offset of the run's first character in that line.
C2_ContentTokenPosition ==
    (JustConstructed /\ source.good) =>
        \A p \in 1..Len(parsedFile) :
            parsedFile[p].type # "END_OF_LINE" =>
                LET L == LineOfIndex(parsedFile, p)
                    k == RankInLine(parsedFile, p)
                IN  /\ L <= Len(source.lines)
                    /\ k <= Cardinality(RunsOf(source.lines[L]))
                    /\ parsedFile[p].line = L
                    /\ parsedFile[p].column = KthRun(source.lines[L], k)[1]

\* a content token on the second line that does not start at column 1, after a first
\* line that holds a token
C2_Witness ==
    /\ JustConstructed /\ source.good
    /\ \E p \in 1..Len(parsedFile) :
          /\ parsedFile[p].type # "END_OF_LINE"
          /\ parsedFile[p].line = 2 /\ parsedFile[p].column > 1
    /\ parsedFile[1].type # "END_OF_LINE"

\* C9: the END_OF_LINE token of a line carries the line's number and the starting
\* column of the last run of that same line, or 1 when the line has no run; never a
\* column left over from an earlier line.
C9_EolPosition ==
    (JustConstructed /\ source.good) =>
        \A p \in 1..Len(parsedFile) :
            parsedFile[p].type = "END_OF_LINE" =>
                LET L == LineOfIndex(parsedFile, p)
                    R == IF L <= Len(source.lines) THEN RunsOf(source.lines[L]) ELSE {}
                IN  /\ L <= Len(source.lines)
                    /\ parsedFile[p].line = L
                    /\ parsedFile[p].column =
                          IF R = {} THEN 1
                          ELSE CHOOSE c \in {r[1] : r \in R} : \A r \in R : r[1] <= c

\* a first line whose last run starts past column 1, then a line without a run
C9_Witness ==
    /\ JustConstructed /\ source.good
    /\ Len(source.lines) = 2
    /\ \E r \in RunsOf(source.lines[1]) : r[1] > 1
    /\ RunsOf(source.lines[2]) = {}
    /\ parsedFile[Len(parsedFile)] = Token("END_OF_LINE", EolLexeme, 2, 1)

\* C10: no stream produced by construction ever holds a LABEL token; the line "x:"
\* yields the lexeme "x", ERROR when "x" is no instruction, and then END_OF_LINE.
C10_NoLabelToken ==
    /\ \A p \in 1..Len(parsedFile) :
          /\ parsedFile[p].type # "LABEL"
          /\ \A q \in 1..Len(parsedFile[p].lexeme) : parsedFile[p].lexeme[q] # 58
    /\ (JustConstructed /\ source.good /\ source.lines = << <<120, 58>> >>
            /\ instructions = {}) =>
          parsedFile = << Token("ERROR", <<120>>, 1, 1),
                          Token("END_OF_LINE", EolLexeme, 1, 1) >>

\* the line "x:" has been scanned with an empty instruction set
C10_Witness ==
    /\ JustConstructed /\ source.good
    /\ source.lines = << <<120, 58>> >> /\ instructions = {}
    /\ Len(parsedFile) = 2 /\ parsedFile[1].type = "ERROR"

-----------------------------------------------------------------------------
(* Consumption *)

\* C6: the k-th successful getNextToken returns the k-th scanned token and leaves the
\* scanned stream without its first k tokens; peekNextToken returns the head,
\* hasMoreTokens tells whether a token is left, and neither changes the stream.
C6_FifoConsumption ==
    /\ [](pc = "ready" =>
            /\ popped <= Len(scanned)
            /\ parsedFile = SubSeq(scanned, popped + 1, Len(scanned))
            /\ (ret.op = "getNextToken" /\ ret.kind = "ok") =>
                  (popped >= 1 /\ ret.value = scanned[popped])
            /\ (ret.op = "peekNextToken" /\ ret.kind = "ok") =>
                  (popped < Len(scanned) /\ ret.value = scanned[popped + 1])
            /\ ret.op = "hasMoreTokens" => ret.value = (popped < Len(scanned)))
    /\ [][ret'.op \in {"peekNextToken", "hasMoreTokens"} =>
            (parsedFile' = parsedFile /\ popped' = popped)]_vars
    /\ [][(ret'.op = "getNextToken" /\ ret'.kind = "ok" /\ ret' # ret) =>
            (popped' = popped + 1 /\ parsedFile' = Tail(parsedFile))]_vars

\* the second token has been popped from a stream of at least three, after a peek
\* saw it at the head
C6_Witness ==
    /\ pc = "ready" /\ Len(scanned) >= 3 /\ popped = 2
    /\ ret.op = "getNextToken" /\ ret.kind = "ok"
    /\ ret.value = scanned[2] /\ scanned[2] # scanned[1] /\ scanned[2] # scanned[3]

\* C7: peekNextToken and getNextToken on an empty stream throw out_of_range and leave
\* the stream empty; hasMoreTokens is still false afterwards.
C7_EmptyStreamThrows ==
    /\ [](ret.kind = "out_of_range" =>
            (parsedFile = <<>> /\ ret.op \in {"peekNextToken", "getNextToken"}))
    /\ [][(pc = "ready" /\ parsedFile = <<>>
            /\ ret'.op \in {"peekNextToken", "getNextToken"}) =>
                (ret'.kind = "out_of_range" /\ parsedFile' = <<>> /\ popped' = popped)]_vars
    /\ [][(ret.kind = "out_of_range" /\ ret'.op = "hasMoreTokens") =>
                ret'.value = FALSE]_vars

\* getNextToken has thrown after the last token of a non-empty stream was popped
C7_Witness ==
    /\ pc = "ready" /\ popped > 0 /\ popped = Len(scanned)
    /\ ret.op = "getNextToken" /\ ret.kind = "out_of_range"

-----------------------------------------------------------------------------
(* Construction failure *)

Constructed == pc \in {"ready", "threw"}

\* C8 as stated: a source that is not in a readable state makes construction fail with
\* an initialization error, and the container holds what it held before.
C8_UnreadableSourceThrows ==
    (Constructed /\ ~(source.is_open /\ source.good)) =>
        (pc = "threw" /\ ret.kind = "runtime_error" /\ parsedFile = <<>>)

\* C8 amended: construction fails with the initialization error exactly when the
\* source is not open, and then the container holds what it held before; an open
\* source that can not be read makes no error and is scanned as a source of zero lines.
C8_ClosedSourceThrows ==
    Constructed =>
        /\ (pc = "threw") = (~source.is_open)
        /\ pc = "threw" => (ret = [op |-> "Lexer", kind |-> "runtime_error",
                                   value |-> NoToken]
                            /\ parsedFile = <<>> /\ scanned = <<>>)
        /\ (source.is_open /\ ~source.good) => (scanned = <<>> /\ parsedFile = <<>>)
        /\ (JustConstructed) => ret.kind = "ok"

\* construction has thrown over a closed source that names a non-empty text
C8_Witness ==
    /\ pc = "threw" /\ ~source.is_open
    /\ Len(source.lines) > 0 /\ Len(source.lines[1]) > 0
    /\ parsedFile = <<>>

-----------------------------------------------------------------------------
(* Classification, stated from the lexeme alone *)

\* the value of a string of decimal digits
RECURSIVE DecimalValue(_)
DecimalValue(digits) ==
    IF digits = <<>> THEN 0
    ELSE 10 * DecimalValue(SubSeq(digits, 1, Len(digits) - 1))
         + (digits[Len(digits)] - 48)

DecimalDigits == 48..57

HexDigits == (48..57) \cup (97..102) \cup (65..70)

RegisterPattern(str) ==
    /\ Len(str) >= 2
    /\ str[1] = 120
    /\ \A i \in 2..Len(str) : str[i] \in DecimalDigits
    /\ DecimalValue(SubSeq(str, 2, Len(str))) \in 0..31

BinaryPattern(str) ==
    Len(str) > 2 /\ str[1] = 48 /\ str[2] = 98 /\ \A i \in 3..Len(str) : str[i] \in {48, 49}

HexPattern(str) ==
    Len(str) > 2 /\ str[1] = 48 /\ str[2] = 120 /\ \A i \in 3..Len(str) : str[i] \in HexDigits

DecimalPattern(str) == \A i \in 1..Len(str) : str[i] \in DecimalDigits

Tokenized == pc = "tok" /\ tkTok # NoToken

\* C3: a lexeme outside the instruction set is REGISTER exactly when it is 'x' followed
\* by one or more decimal digits whose value is in 0..31, leading zeros allowed; 'x'
\* alone, x32 and above, and 'x' followed by a non-digit are ERROR.
C3_RegisterRule ==
    (Tokenized /\ tkStr \notin instructions) =>
        /\ (tkTok.type = "REGISTER") = RegisterPattern(tkStr)
        /\ (tkStr[1] = 120 /\ ~RegisterPattern(tkStr)) => tkTok.type = "ERROR"
        /\ tkTok.lexeme = tkStr

\* "x01" has been classified REGISTER
C3_Witness ==
    /\ Tokenized /\ tkStr = <<120, 48, 49>> /\ tkStr \notin instructions
    /\ tkTok.type = "REGISTER"

\* C4: a lexeme that is neither an instruction nor a REGISTER is IMMEDIATE exactly when
\* it is 0b + binary digits, 0x + hex digits, or all decimal digits; a longer-than-2
\* lexeme starting 0b or 0x with an invalid digit is ERROR, and so is 0b or 0x alone.
C4_ImmediateRule ==
    (Tokenized /\ tkStr \notin instructions /\ tkTok.type # "REGISTER") =>
        /\ (tkTok.type = "IMMEDIATE") =
              (BinaryPattern(tkStr) \/ HexPattern(tkStr) \/ DecimalPattern(tkStr))
        /\ (Len(tkStr) >= 2 /\ tkStr[1] = 48 /\ tkStr[2] \in {98, 120}
              /\ ~BinaryPattern(tkStr) /\ ~HexPattern(tkStr)) => tkTok.type = "ERROR"

\* "0bB" has been classified ERROR: 'B' is a hex digit but the prefix is binary
C4_Witness ==
    /\ Tokenized /\ tkStr = <<48, 98, 66>> /\ tkStr \notin instructions
    /\ tkTok.type = "ERROR"

\* the letters of a lexeme folded to lower case
ToLower(str) == [i \in 1..Len(str) |-> IF str[i] \in 65..90 THEN str[i] + 32 ELSE str[i]]

\* C5: a lexeme that is a member of the instruction set is INSTRUCTION whatever else it
\* looks like; a lexeme that is no member is never INSTRUCTION, also when it differs
\* from a member in letter case only.
C5_InstructionPrecedence ==
    Tokenized =>
        /\ (tkTok.type = "INSTRUCTION") = (tkStr \in instructions)
        /\ (tkStr \notin instructions
              /\ \E m \in instructions : ToLower(m) = ToLower(tkStr)) =>
                 tkTok.type # "INSTRUCTION"

\* the mnemonic "x1", which has the shape of a register, has been classified
\* INSTRUCTION while "1" and "b" are mnemonics too
C5_Witness ==
    /\ Tokenized /\ tkStr = <<120, 49>> /\ instructions = MnemonicPool
    /\ tkTok.type = "INSTRUCTION"

====
